---- MODULE Spec2Model ----
(***************************************************************************)
(* Model of packages/aws-client-factory/src/factory.ts: one client cache   *)
(* (createClientCache) together with the memoizing client factory it       *)
(* wraps (createClientFactory) and the clock helper (useGlobalConfigClock).*)
(* The SDK constructors are external: each invocation either yields a new  *)
(* client object or throws.                                                *)
(*                                                                         *)
(* Spec explores the factory functions and the cache getters over every    *)
(* options object; ClockSpec adds the writes to the clock offsets and      *)
(* explores them over the calls without options and with empty options.    *)
(***************************************************************************)
EXTENDS Integers, Sequences, FiniteSets, TLC

\* ---------------------------------------------------------------- bounds
MaxClients == 2      \* successful constructor invocations explored

\* ------------------------------------------------------------ vocabulary
\* JavaScript values: a string, undefined, or an object whose members are a
\* sequence of <<key, value>> pairs with distinct keys, in insertion order.
\* undefined is written Undefined where a string may stand (a member's
\* value, a cache key) and Omitted where an object may stand (an argument).
Undefined == "undefined"
Omitted == [type |-> "undefined", members |-> <<>>]
Obj(members) == [type |-> "object", members |-> members]

NoClient == 0                            \* "no client object" (ids start at 1)
NoError == "none"
NoConfig == [prop |-> "none", value |-> 0]      \* an object without .config
Empty == [x \in {} |-> NoClient]                \* a map without entries

\* two of the entries of `factories`: a plain service and the document client
Services == {"s3", "documentclient"}
\* configuration keys, in the order Array.prototype.sort gives them
OptionKeys == <<"endpoint", "region">>
KeySet == {OptionKeys[i] : i \in DOMAIN OptionKeys}
Errors == {"E1", "E2"}                   \* what a constructor may throw
Outcomes == {"ok"} \cup Errors           \* what a constructor may do
Offsets == {0, 1}                        \* clock offsets written

\* The options objects a caller passes: no key, a key with a value, a key
\* with the value undefined, and two keys in either order.
OptionObjects ==
  {Obj(<<>>),
   Obj(<<(<<"region", "v1">>)>>),
   Obj(<<(<<"region", Undefined>>)>>),
   Obj(<<(<<"endpoint", "v1">>), (<<"region", "v1">>)>>),
   Obj(<<(<<"region", "v1">>), (<<"endpoint", "v1">>)>>)}
\* The argument of a factory function: omitted (undefined) or an object.
OptionInputs == {Omitted} \cup OptionObjects
\* The arguments explored together with the clock writes.
ClockInputs == {Omitted, Obj(<<>>)}

\* The options a call was given, up to the order of the keys and up to keys
\* whose value is undefined: what a key-order-independent JSON serialization
\* can tell apart.
Class(opts) ==
  [omitted |-> opts = Omitted,
   defined |-> {opts.members[i] : i \in
                  {j \in DOMAIN opts.members : opts.members[j][2] # Undefined}}]

VARIABLES
  AWS_REGION,        \* process.env.AWS_REGION when the module was loaded
  clientsOpts,       \* the argument of createClientCache / createClientFactory
  memoized,          \* per service: the memoize cache, key -> client id
  clients,           \* every client object constructed so far, by id
  instantiated,      \* cache.instantiated: service -> client id
  systemClockOffset, \* AWS.config.systemClockOffset
  reads,             \* history: services whose getter has returned a client
  last               \* history: the most recent operation and its outcome

vars == <<AWS_REGION, clientsOpts, memoized, clients, instantiated,
          systemClockOffset, reads, last>>

\* -------------------------------------------------------- pure functions
HasKey(obj, k) == \E i \in DOMAIN obj.members : obj.members[i][1] = k
\* obj[k]: undefined for a key the object does not have
Get(obj, k) ==
  IF HasKey(obj, k)
    THEN obj.members[CHOOSE i \in DOMAIN obj.members : obj.members[i][1] = k][2]
    ELSE Undefined

\* json-stable-stringify of an object: the keys sorted, the members whose
\* value serializes to undefined left out.
RECURSIVE Members(_, _)
Members(obj, i) ==
  IF i > Len(OptionKeys) THEN <<>>
  ELSE LET k == OptionKeys[i]
           rest == Members(obj, i + 1)
       IN IF HasKey(obj, k) /\ Get(obj, k) # Undefined
            THEN <<"\"" \o k \o "\":\"" \o Get(obj, k) \o "\"">> \o rest
            ELSE rest

RECURSIVE Join(_)
Join(out) ==
  IF out = <<>> THEN ""
  ELSE IF Len(out) = 1 THEN out[1]
  ELSE out[1] \o "," \o Join(Tail(out))

\* JSON.stringify: the members in insertion order (the mutant of the resolver)
RECURSIVE MembersUnsorted(_)
MembersUnsorted(members) ==
  IF members = <<>> THEN <<>>
  ELSE LET rest == MembersUnsorted(Tail(members))
       IN IF Head(members)[2] # Undefined
            THEN <<"\"" \o Head(members)[1] \o "\":\"" \o Head(members)[2] \o "\"">>
                   \o rest
            ELSE rest

stableStringify(opts) ==
  IF opts = Omitted THEN Undefined
  ELSE "{" \o Join(Members(opts, 1)) \o "}"

\* mutants of the resolver: insertion order; keys without their values
resolverUnsorted(opts) ==
  IF opts = Omitted THEN Undefined
  ELSE "{" \o Join(MembersUnsorted(opts.members)) \o "}"
resolverKeysOnly(opts) ==
  IF opts = Omitted THEN Undefined
  ELSE "{" \o Join([i \in DOMAIN opts.members |-> opts.members[i][1]]) \o "}"

\* the resolver handed to memoize: opts => stableStringify(opts)
resolver(opts) == stableStringify(opts)

\* target[k] = v: an existing key keeps its place, a new key goes last
Assign(members, k, v) ==
  IF \E i \in DOMAIN members : members[i][1] = k
    THEN [i \in DOMAIN members |->
            IF members[i][1] = k THEN <<k, v>> ELSE members[i]]
    ELSE Append(members, <<k, v>>)

RECURSIVE AssignAll(_, _)
AssignAll(members, source) ==
  IF source = <<>> THEN members
  ELSE AssignAll(Assign(members, Head(source)[1], Head(source)[2]),
                 Tail(source))

\* { ...target, ...source }: spreading undefined adds nothing
Spread(target, source) == Obj(AssignAll(target.members, source.members))

FACTORY_DEFAULTS == Obj(<<(<<"region", AWS_REGION>>)>>)

\* const { defaults = FACTORY_DEFAULTS } = clientsOpts
defaults ==
  IF clientsOpts.defaults = Omitted THEN FACTORY_DEFAULTS
  ELSE clientsOpts.defaults

\* mutant of the merge: the defaults win over the per-call options
MergedDefaultsWin(opts) == Spread(opts, defaults)

\* { ...defaults, ...opts }, the argument of the constructor
Merged(opts) == Spread(defaults, opts)

\* new AWS.<Service>(arg): a service object carries a config, copied from
\* AWS.config; a DocumentClient carries no config of its own but a service
\* object. madeFor notes the options the constructing call was given.
NewClient(serviceName, arg, opts, offset) ==
  LET config == [prop |-> "data", value |-> offset]
  IN [name |-> serviceName, arg |-> arg, madeFor |-> Class(opts),
      config |-> IF serviceName = "documentclient" THEN NoConfig ELSE config,
      service |-> IF serviceName = "documentclient" THEN config ELSE NoConfig]

IsDocumentClient(client) == client.name = "documentclient"

\* Object.defineProperty(config, 'systemClockOffset', { get, set })
Accessor == [prop |-> "accessor", value |-> 0]

\* mutant of useGlobalConfigClock: the document client is not unwrapped
useGlobalConfigClockNoUnwrap(client) ==
  IF client.config = NoConfig THEN client
  ELSE [client EXCEPT !.config = Accessor]

\* useGlobalConfigClock(service)
useGlobalConfigClock(client) ==
  IF IsDocumentClient(client)
    THEN IF client.service = NoConfig THEN client
         ELSE [client EXCEPT !.service = Accessor]
    ELSE IF client.config = NoConfig THEN client
         ELSE [client EXCEPT !.config = Accessor]

\* mutant of the memoized function: it wraps the failure in its own error
ConstructWrapping(serviceName, opts, outcome) ==
  [threw |-> outcome \in Errors,
   error |-> IF outcome \in Errors THEN "wrapped" ELSE NoError,
   client |-> NewClient(serviceName, Merged(opts), opts, systemClockOffset)]

\* The function wrapped by memoize: construct, optionally sync the clock.
\* outcome is what the SDK constructor does: "ok" or the error it throws.
Construct(serviceName, opts, outcome) ==
  LET client == NewClient(serviceName, Merged(opts), opts, systemClockOffset)
  IN IF outcome \in Errors
       THEN [threw |-> TRUE, error |-> outcome, client |-> client]
       ELSE [threw |-> FALSE, error |-> NoError,
             client |-> IF clientsOpts.useGlobalConfigClock
                          THEN useGlobalConfigClock(client) ELSE client]

\* the config object whose systemClockOffset a client's requests use
ConfigOf(client) ==
  IF IsDocumentClient(client) THEN client.service ELSE client.config

\* reading config.systemClockOffset
ReadOffset(client) ==
  IF ConfigOf(client).prop = "accessor" THEN systemClockOffset
  ELSE ConfigOf(client).value

Outcome(op, serviceName, opts, threw, error, client) ==
  [op |-> op, service |-> serviceName, opts |-> opts,
   threw |-> threw, error |-> error, client |-> client]

\* ------------------------------------------------------------------ Init
\* createClientCache(clientsOpts): nothing constructed, nothing recorded.
\* CreateClientFactoryDefaults requires defaults to have a region.
Init ==
  /\ AWS_REGION = "e1"
  /\ clientsOpts \in
       [defaults : {Omitted,
                    Obj(<<(<<"endpoint", "d2">>), (<<"region", "d1">>)>>)},
        useGlobalConfigClock : BOOLEAN]
  /\ memoized = [s \in Services |-> Empty]
  /\ clients = <<>>
  /\ instantiated = Empty
  /\ systemClockOffset = 0
  /\ reads = {}
  /\ last = Outcome("create", "", Omitted, FALSE, NoError, NoClient)

\* --------------------------------------------------------------- actions
\* mutant of memoize: a failed call is stored like a result
MemoizedStoringFailure(op, serviceName, opts, outcome) ==
  LET key == resolver(opts)
      cache == memoized[serviceName]
      result == Construct(serviceName, opts, outcome)
  IN IF key \in DOMAIN cache
       THEN /\ outcome = "ok"
            /\ last' = Outcome(op, serviceName, opts, FALSE, NoError, cache[key])
            /\ UNCHANGED <<memoized, clients>>
       ELSE /\ Len(clients) < MaxClients
            /\ clients' = Append(clients, result.client)
            /\ memoized' = [memoized EXCEPT ![serviceName] =
                              (key :> Len(clients) + 1) @@ @]
            /\ last' = Outcome(op, serviceName, opts, result.threw,
                               result.error,
                               IF result.threw THEN NoClient
                               ELSE Len(clients) + 1)

\* memoized[serviceName](opts), as lodash memoize runs it: look the key up;
\* when it is missing run the wrapped function and store what it returns
\* (nothing is stored when it throws).
Memoized(op, serviceName, opts, outcome) ==
  LET key == resolver(opts)
      cache == memoized[serviceName]
      result == Construct(serviceName, opts, outcome)
  IN IF key \in DOMAIN cache
       THEN /\ outcome = "ok"
            /\ last' = Outcome(op, serviceName, opts, FALSE, NoError, cache[key])
            /\ UNCHANGED <<memoized, clients>>
       ELSE IF result.threw
         THEN /\ last' = Outcome(op, serviceName, opts, TRUE, result.error,
                                 NoClient)
              /\ UNCHANGED <<memoized, clients>>
         ELSE /\ Len(clients) < MaxClients
              /\ clients' = Append(clients, result.client)
              /\ memoized' = [memoized EXCEPT ![serviceName] =
                                (key :> Len(clients) + 1) @@ @]
              /\ last' = Outcome(op, serviceName, opts, FALSE, NoError,
                                 Len(clients) + 1)

\* factory[serviceName](opts), also reachable as cache.factory[...]
CallFactoryWith(serviceName, opts, outcome) ==
  /\ Memoized("call", serviceName, opts, outcome)
  /\ UNCHANGED <<AWS_REGION, clientsOpts, instantiated, systemClockOffset,
                 reads>>

CallFactory(serviceName, opts) ==
  \E outcome \in Outcomes : CallFactoryWith(serviceName, opts, outcome)

\* mutants of the getter: it calls factory[method]({}); it records a failure
GetterArgumentEmpty == Obj(<<>>)
RecordedAlways(method, result) == (method :> result.client) @@ instantiated

\* the argument of factory[method]() in the getter: none
GetterArgument == Omitted

\* instantiated[method] = <the value returned>; skipped when the call threw
Recorded(method, result) ==
  IF result.threw THEN instantiated
  ELSE (method :> result.client) @@ instantiated

\* cache[method]: return (instantiated[method] = factory[method]())
ReadCacheWith(method, outcome) ==
  /\ Memoized("read", method, GetterArgument, outcome)
  /\ instantiated' = Recorded(method, last')
  /\ reads' = IF last'.threw THEN reads ELSE reads \cup {method}
  /\ UNCHANGED <<AWS_REGION, clientsOpts, systemClockOffset>>

ReadCache(method) ==
  \E outcome \in Outcomes : ReadCacheWith(method, outcome)

\* AWS.config.systemClockOffset = value
WriteGlobalOffset(value) ==
  /\ systemClockOffset' = value
  /\ last' = Outcome("write", "", Omitted, FALSE, NoError, NoClient)
  /\ UNCHANGED <<AWS_REGION, clientsOpts, memoized, clients, instantiated,
                 reads>>

\* <the client's config>.systemClockOffset = value
WriteClientOffset(id, value) ==
  /\ id \in DOMAIN clients
  /\ IF ConfigOf(clients[id]).prop = "accessor"
       THEN /\ systemClockOffset' = value
            /\ UNCHANGED clients
       ELSE /\ clients' = [clients EXCEPT ![id] =
                 IF IsDocumentClient(@)
                   THEN [@ EXCEPT !.service.value = value]
                   ELSE [@ EXCEPT !.config.value = value]]
            /\ UNCHANGED systemClockOffset
  /\ last' = Outcome("write", "", Omitted, FALSE, NoError, id)
  /\ UNCHANGED <<AWS_REGION, clientsOpts, memoized, instantiated, reads>>

Next ==
  \/ \E s \in Services, o \in OptionInputs : CallFactory(s, o)
  \/ \E s \in Services : ReadCache(s)

Spec == Init /\ [][Next]_vars

ClockNext ==
  \/ \E s \in Services, o \in ClockInputs : CallFactory(s, o)
  \/ \E s \in Services : ReadCache(s)
  \/ \E v \in Offsets : WriteGlobalOffset(v)
  \/ \E id \in 1..MaxClients, v \in Offsets : WriteClientOffset(id, v)

ClockSpec == Init /\ [][ClockNext]_vars

\* ------------------------------------------------------------ the claims
\* a and b hold the same keys with the same values
SameConfig(a, b) ==
  \A k \in KeySet : HasKey(a, k) = HasKey(b, k) /\ Get(a, k) = Get(b, k)

\* the clients constructed for a service by calls given options of a class
MadeFor(cs, serviceName, class) ==
  {i \in DOMAIN cs : cs[i].name = serviceName /\ cs[i].madeFor = class}

\* the most recent operation ran factory[service](opts), directly or through
\* the getter, and returned a client
Returned(l) == l.op \in {"call", "read"} /\ ~l.threw
\* ... and threw
Threw(l) == l.op \in {"call", "read"} /\ l.threw

\* this step invoked the underlying constructor
Invoked == Threw(last') \/ Len(clients') = Len(clients) + 1

\* no entry of the memoize caches is dropped or replaced by this step
EntriesKept ==
  \A s \in Services : \A k \in DOMAIN memoized[s] :
    k \in DOMAIN memoized'[s] /\ memoized'[s][k] = memoized[s][k]

\* C1 as stated: calls whose options canonicalize identically return the
\* same instance, entries are never evicted, and the constructor is invoked
\* at most once per service and canonical key. The last part is stated for
\* two successive calls: a call that invokes the constructor does not follow
\* a call for the same service and key that invoked (and failed in) it.
C1_InvokedAtMostOnce ==
  [][Invoked =>
       ~(Threw(last) /\ last.service = last'.service
           /\ Class(last.opts) = Class(last'.opts))]_vars

\* C1 amended: a call that returns a client returns the only client ever
\* constructed for that service and that class of options (so any two calls
\* whose options canonicalize identically return the same instance, whatever
\* the key order), no entry is ever dropped or replaced, and the constructor
\* completes at most once per service and class.
C1_SameInstance ==
  /\ [](/\ \A i, j \in DOMAIN clients :
             (clients[i].name = clients[j].name
                /\ clients[i].madeFor = clients[j].madeFor) => i = j
        /\ Returned(last) =>
             MadeFor(clients, last.service, Class(last.opts)) = {last.client})
  /\ [][EntriesKept]_vars

\* a call with two keys was answered with a client constructed earlier
C1_Witness ==
  /\ last.op = "call" /\ ~last.threw
  /\ Len(last.opts.members) = 2
  /\ last.client \in DOMAIN clients /\ last.client < Len(clients)

\* C2: the client a call returns was constructed for that service and for
\* options of the call's own class, so calls whose options canonicalize
\* differently return different instances; the call leaves the entries of
\* all other keys as they were.
C2_DistinctInstances ==
  /\ [](Returned(last) =>
          /\ last.client \in DOMAIN clients
          /\ clients[last.client].name = last.service
          /\ clients[last.client].madeFor = Class(last.opts))
  /\ [][\A s \in Services : \A k \in DOMAIN memoized[s] :
          (s # last'.service \/ k # resolver(last'.opts)) =>
            (k \in DOMAIN memoized'[s] /\ memoized'[s][k] = memoized[s][k])]_vars

\* two clients of one service, the second just constructed by a call
C2_Witness ==
  /\ Len(clients) = 2 /\ clients[1].name = clients[2].name
  /\ clients[1].madeFor # clients[2].madeFor
  /\ last.op = "call" /\ last.client = 2

\* C3: the argument of the constructor holds, for every key, the per-call
\* value if the options have the key, otherwise the caller's default if it
\* has the key, otherwise the environment's region (and no other key).
C3_MergePrecedence ==
  [][(Returned(last') /\ Len(clients') = Len(clients) + 1) =>
       LET arg == clients'[Len(clients')].arg
           o == last'.opts
       IN \A k \in KeySet :
            IF HasKey(o, k)
              THEN HasKey(arg, k) /\ Get(arg, k) = Get(o, k)
            ELSE IF HasKey(clientsOpts.defaults, k)
              THEN HasKey(arg, k) /\ Get(arg, k) = Get(clientsOpts.defaults, k)
            ELSE IF k = "region"
              THEN HasKey(arg, k) /\ Get(arg, k) = AWS_REGION
            ELSE ~HasKey(arg, k)]_vars

\* a client whose region came from the call and whose endpoint came from
\* the caller's defaults, and one whose region came from those defaults
C3_Witness ==
  /\ \E i \in DOMAIN clients :
       Get(clients[i].arg, "region") = "v1" /\ Get(clients[i].arg, "endpoint") = "d2"
  /\ \E i \in DOMAIN clients : Get(clients[i].arg, "region") = "d1"

\* C4: instantiated is empty on creation; it has an entry for a service
\* exactly when the getter of that service has returned at least once; the
\* entry is the instance the read returned; a read leaves the entries of the
\* other services as they were.
C4_Instantiated ==
  /\ [](/\ last.op = "create" => instantiated = Empty
        /\ DOMAIN instantiated = reads
        /\ (last.op = "read" /\ ~last.threw) =>
             (last.service \in DOMAIN instantiated
                /\ instantiated[last.service] = last.client))
  /\ [][last'.op = "read" =>
          \A t \in Services \ {last'.service} :
            /\ (t \in DOMAIN instantiated') = (t \in DOMAIN instantiated)
            /\ t \in DOMAIN instantiated => instantiated'[t] = instantiated[t]]_vars

\* s3 has been read, documentclient has been constructed but never read
C4_Witness ==
  /\ last.op = "read" /\ ~last.threw
  /\ DOMAIN instantiated = {"s3"}
  /\ \E i \in DOMAIN clients : clients[i].name = "documentclient"

\* C5 as stated, for the part that fails: the constructor runs at most once
\* for the reads of a service. Stated for two successive reads: a read that
\* invokes the constructor does not follow a read of the same service that
\* invoked it.
C5_ConstructorRunsOnce ==
  [][(last'.op = "read" /\ Invoked) =>
       ~(last.op = "read" /\ last.service = last'.service /\ last.threw)]_vars

\* C5 amended: every read of a service that returns, and every call of its
\* factory function without options that returns, returns the one client
\* ever constructed for that service without options, and that client is
\* the entry of instantiated (the constructor completes at most once).
C5_SameInstance ==
  /\ \A s \in DOMAIN instantiated :
       MadeFor(clients, s, Class(Omitted)) = {instantiated[s]}
  /\ (Returned(last) /\ (last.op = "read" \/ last.opts = Omitted)) =>
       MadeFor(clients, last.service, Class(Omitted)) = {last.client}

\* a read answered with a client constructed before another one
C5_Witness ==
  /\ last.op = "read" /\ ~last.threw
  /\ last.client \in DOMAIN clients /\ last.client < Len(clients)

\* C6: with useGlobalConfigClock set, the offset read from the config of
\* every client the factory produced (a document client: of its service
\* object) is the global offset, after any writes to either.
C6_SharedOffset ==
  clientsOpts.useGlobalConfigClock =>
    \A i \in DOMAIN clients :
      ConfigOf(clients[i]) # NoConfig =>
        ReadOffset(clients[i]) = systemClockOffset

\* a write through one synced client, seen by a document client and a
\* plain client
C6_Witness ==
  /\ clientsOpts.useGlobalConfigClock
  /\ last.op = "write" /\ last.client # NoClient
  /\ systemClockOffset = 1
  /\ \E i, j \in DOMAIN clients :
       IsDocumentClient(clients[i]) /\ ~IsDocumentClient(clients[j])

\* C7: when the constructor throws during a factory call or a cache read,
\* the caller gets that very error and no client.
C7_FailurePropagates ==
  [][\A e \in Errors :
       (/\ last'.op \in {"call", "read"}
        /\ \/ CallFactoryWith(last'.service, last'.opts, e)
           \/ ReadCacheWith(last'.service, e)) =>
         (last'.threw /\ last'.error = e /\ last'.client = NoClient)]_vars

\* a cache read that threw the constructor's second error
C7_Witness == last.op = "read" /\ last.threw /\ last.error = "E2"

\* C8: a call or read in which the constructor throws changes no memoize
\* entry, no client and no entry of instantiated, and a call for the same
\* service and options right after it invokes the constructor again.
C8_FailureLeavesState ==
  [][/\ Threw(last') =>
          (memoized' = memoized /\ clients' = clients
             /\ instantiated' = instantiated)
     /\ (Threw(last) /\ last'.op \in {"call", "read"}
           /\ last'.service = last.service
           /\ Class(last'.opts) = Class(last.opts)) => Invoked]_vars

\* a failed read while a client of that service and an entry exist
C8_Witness ==
  /\ last.op = "read" /\ last.threw
  /\ instantiated # Empty
  /\ \E i \in DOMAIN clients : clients[i].name = last.service

\* C9 as stated: the client a call returns, constructed or memoized, was
\* constructed with the call's options overlaid on the defaults.
C9_ReturnedConfig ==
  Returned(last) =>
    SameConfig(clients[last.client].arg, Spread(defaults, last.opts))

\* C10 as stated: factory[s]() and factory[s]({}) return different
\* instances, built with the same merged configuration, and a cache read
\* returns the instance of factory[s]().
C10_OmittedVersusEmpty ==
  /\ (Returned(last) /\ last.opts = Obj(<<>>)) =>
       \A i \in MadeFor(clients, last.service, Class(Omitted)) :
         /\ i # last.client
         /\ SameConfig(clients[i].arg, clients[last.client].arg)
  /\ (Returned(last) /\ last.op = "read") =>
       last.client \in MadeFor(clients, last.service, Class(Omitted))

====
